---- MODULE Spec2Model ----
(***************************************************************************)
(* A model of generate_hvac_dataset.py: the contract synthesizer, the SOV  *)
(* allocator, the delivery generator and the progress billing engine, as   *)
(* main() runs them for a project of PROJECTS, and the sources of          *)
(* randomness the generators draw from.                                    *)
(*                                                                         *)
(* Money is kept in whole dollars unless a definition says otherwise.  The *)
(* source computes in binary floating point; the model computes the same   *)
(* expressions in exact rational arithmetic (quotient and remainder) and   *)
(* rounds as Python's round() does, half to even.  Products of the         *)
(* program's magnitudes pass 2^31, so they go through MulDiv.              *)
(*                                                                         *)
(* A draw of random.uniform(lo, hi) or random.randint(lo, hi) is a choice  *)
(* among NumLevels + 1 values spread over [lo, hi].  Every draw of a run   *)
(* takes the middle value, its default, except one draw at most, which may *)
(* take any value of its set; deviated tells that the run has used it.     *)
(***************************************************************************)
EXTENDS Integers, Sequences, FiniteSets, TLC

VARIABLES
    pc,              \* where main() or the running generator stands
    proj,            \* index into PROJECTS of the project being processed
    deviated,        \* a draw of this run has left its default
    contract_value,  \* contract["original_contract_value"], dollars
    raw_pcts,        \* generate_sov: raw_pcts, per mille
    sov_lines,       \* generate_sov: sov_lines
    residue,         \* generate_sov: contract_value - current_total (line 224)
    deliv_i,         \* generate_material_deliveries: index of the SOV line at hand
    deliveries,      \* generate_material_deliveries: deliveries
    month,           \* generate_billing_history: the month the loop stands at
    sov_billing,     \* generate_billing_history: billed so far, by SOV line
    billing,         \* generate_billing_history: the applications emitted
    run,             \* two executions of the program: the one executing (1 or 2)
    tape,            \* the values the generator seeded at line 17 yields, in order
    rng,             \* by run: how many values of tape the run has consumed
    clock,           \* by run: datetime.now(), in days after the submission date
    out,             \* by run: the records produced
    day_count,       \* generate_labor_logs: working days logged so far
    weekday,         \* generate_labor_logs: current_date.weekday()
    current_date,    \* generate_labor_logs: current_date, in days after 2024-01-01
    bias,            \* generate_labor_logs: what the draws of each kind yield in this run
    day_logs,        \* generate_labor_logs: the entries appended on the latest working day
    line_hours,      \* generate_labor_logs: hours logged so far, by SOV line
    num_cos,         \* generate_change_orders: num_cos
    now,             \* generate_change_orders: datetime.now(), in days after start_date
    change_orders,   \* generate_change_orders: change_orders
    num_rfis,        \* generate_rfis: num_rfis
    rfis,            \* generate_rfis: rfis
    note_days,       \* generate_field_notes: day_count
    note_weekday,    \* generate_field_notes: current_date.weekday()
    notes,           \* generate_field_notes: the working days that have a note
    bid              \* generate_bid_estimate: total_hours_estimated of the bid returned

sovVars == <<contract_value, raw_pcts, sov_lines, residue>>
delivVars == <<deliv_i, deliveries>>
billVars == <<month, sov_billing, billing>>
runVars == <<run, tape, rng, clock, out>>
laborVars == <<day_count, weekday, current_date, bias, day_logs, line_hours>>
coVars == <<num_cos, now, change_orders>>
rfiVars == <<num_rfis, rfis>>
noteVars == <<note_days, note_weekday, notes>>
genVars == <<laborVars, coVars, rfiVars, noteVars, bid>>

vars == <<pc, proj, deviated, sovVars, delivVars, billVars, runVars, genVars>>

----------------------------------------------------------------------------
(* Bounds of the model *)

\* a draw from [lo, hi] takes one of the NumLevels + 1 values lo + k * (hi - lo) / NumLevels
NumLevels == 2

\* the values one cell of the seeded generator's tape, and one uuid4(), may take
NumValues == 2

----------------------------------------------------------------------------
(* Catalogs *)

PROJECTS == <<
    [type |-> "Healthcare", sq_ft |-> 285000, floors |-> 6,
     duration_months |-> 18, complexity |-> "high"],
    [type |-> "Commercial Office", sq_ft |-> 420000, floors |-> 22,
     duration_months |-> 24, complexity |-> "high"],
    [type |-> "K-12 Education", sq_ft |-> 95000, floors |-> 2,
     duration_months |-> 14, complexity |-> "medium"],
    [type |-> "Data Center", sq_ft |-> 65000, floors |-> 1,
     duration_months |-> 10, complexity |-> "high"],
    [type |-> "Multifamily Residential", sq_ft |-> 340000, floors |-> 8,
     duration_months |-> 20, complexity |-> "medium"] >>

\* pct_range of each template line, per mille; equipment marks the lines whose
\* description holds "Equipment"
SOV_TEMPLATE == <<
    [code |-> 1,  lo |-> 60,  hi |-> 90,  equipment |-> FALSE],
    [code |-> 2,  lo |-> 20,  hi |-> 40,  equipment |-> FALSE],
    [code |-> 3,  lo |-> 80,  hi |-> 120, equipment |-> FALSE],
    [code |-> 4,  lo |-> 100, hi |-> 140, equipment |-> FALSE],
    [code |-> 5,  lo |-> 80,  hi |-> 120, equipment |-> FALSE],
    [code |-> 6,  lo |-> 40,  hi |-> 70,  equipment |-> FALSE],
    [code |-> 7,  lo |-> 120, hi |-> 180, equipment |-> TRUE],
    [code |-> 8,  lo |-> 80,  hi |-> 140, equipment |-> TRUE],
    [code |-> 9,  lo |-> 60,  hi |-> 100, equipment |-> TRUE],
    [code |-> 10, lo |-> 60,  hi |-> 100, equipment |-> FALSE],
    [code |-> 11, lo |-> 30,  hi |-> 50,  equipment |-> FALSE],
    [code |-> 12, lo |-> 40,  hi |-> 60,  equipment |-> FALSE],
    [code |-> 13, lo |-> 20,  hi |-> 40,  equipment |-> FALSE],
    [code |-> 14, lo |-> 20,  hi |-> 30,  equipment |-> FALSE],
    [code |-> 15, lo |-> 10,  hi |-> 20,  equipment |-> FALSE] >>

NumLines == Len(SOV_TEMPLATE)

----------------------------------------------------------------------------
(* Arithmetic *)

\* the radix in which MulDivRem takes the digits of a multiplier: the largest
\* of 1024, 32 and 2 that keeps radix * c within 2^30
Radix(c) == IF c <= 1048576 THEN 1024 ELSE IF c <= 33554432 THEN 32 ELSE 2

RECURSIVE MulDivRem(_, _, _)
\* <<q, r>> with ra * b = q * c + r and 0 <= r < c, for 0 <= ra < c, digit by
\* digit of b so that no product passes 2^31
MulDivRem(ra, b, c) ==
    IF b = 0 THEN <<0, 0>>
    ELSE LET h == MulDivRem(ra, b \div Radix(c), c)
             t == Radix(c) * h[2] + ra * (b % Radix(c))
         IN  <<Radix(c) * h[1] + (t \div c), t % c>>

\* <<q, r>> with a * b = q * c + r and 0 <= r < c: the exact value of a * b / c
MulDiv(a, b, c) ==
    LET h == MulDivRem(a % c, b, c)
    IN  <<(a \div c) * b + h[1], h[2]>>

\* Python's round(): the integer nearest to q + r / c, a tie going to the even one
RoundHalfEven(q, r, c) ==
    IF 2 * r > c THEN q + 1
    ELSE IF 2 * r < c THEN q
    ELSE IF q % 2 = 0 THEN q ELSE q + 1

RECURSIVE SumSeq(_)
SumSeq(s) == IF s = <<>> THEN 0 ELSE Head(s) + SumSeq(Tail(s))

Max0(x) == IF x > 0 THEN x ELSE 0

----------------------------------------------------------------------------
(* The draws of the random module *)

\* the values a draw from [lo, hi] may take
Levels(lo, hi) == {lo + (k * (hi - lo)) \div NumLevels : k \in 0..NumLevels}

\* the value a draw from [lo, hi] takes by default
Default(lo, hi) == lo + ((NumLevels \div 2) * (hi - lo)) \div NumLevels

\* random.uniform(lo, hi) or random.randint(lo, hi) in a run whose deviated is
\* dev: the pairs <<value drawn, deviated afterwards>>
Draw(lo, hi, dev) ==
    {<<Default(lo, hi), dev>>}
        \cup (IF dev THEN {}
              ELSE {<<v, TRUE>> : v \in Levels(lo, hi) \ {Default(lo, hi)}})

\* n draws from [lo, hi] in a row: the pairs <<values drawn, deviated afterwards>>
Draws(n, lo, hi, dev) ==
    {<<[i \in 1..n |-> Default(lo, hi)], dev>>}
        \cup (IF dev THEN {}
              ELSE {<<[i \in 1..n |-> IF i = j THEN v ELSE Default(lo, hi)], TRUE>> :
                       j \in 1..n, v \in Levels(lo, hi) \ {Default(lo, hi)}})

----------------------------------------------------------------------------
(* generate_contract_value *)

\* the range of cost_per_sf by project type, in half dollars
CostPerSf(type) ==
    CASE type = "Healthcare" -> <<170, 240>>
      [] type = "Commercial Office" -> <<90, 130>>
      [] type = "K-12 Education" -> <<110, 150>>
      [] type = "Data Center" -> <<360, 560>>
      [] type = "Multifamily Residential" -> <<70, 100>>

\* complexity_mult, in percent
ComplexityMult(complexity) ==
    CASE complexity = "low" -> 90
      [] complexity = "medium" -> 100
      [] complexity = "high" -> 115

\* base_cost = sq_ft * cost_per_sf * complexity_mult; round(base_cost / 1000) * 1000
BaseCost(project, cost2) ==
    LET x == MulDiv(project.sq_ft * cost2, ComplexityMult(project.complexity), 200000)
    IN  RoundHalfEven(x[1], x[2], 200000) * 1000

GenerateContractValue ==
    /\ pc = "contract"
    /\ \E d \in Draw(CostPerSf(PROJECTS[proj].type)[1],
                     CostPerSf(PROJECTS[proj].type)[2], deviated) :
          /\ contract_value' = BaseCost(PROJECTS[proj], d[1])
          /\ deviated' = d[2]
    /\ pc' = "sov_pcts"
    /\ raw_pcts' = <<>>
    /\ sov_lines' = <<>>
    /\ residue' = 0
    /\ UNCHANGED <<genVars, proj, delivVars, billVars, runVars>>

----------------------------------------------------------------------------
(* generate_sov *)

\* the first loop: one pct per template line
DrawPct ==
    /\ pc = "sov_pcts"
    /\ Len(raw_pcts) < NumLines
    /\ LET item == SOV_TEMPLATE[Len(raw_pcts) + 1]
       IN  \E d \in Draw(item.lo, item.hi, deviated) :
              /\ raw_pcts' = Append(raw_pcts, d[1])
              /\ deviated' = d[2]
    /\ pc' = IF Len(raw_pcts') = NumLines THEN "sov_lines" ELSE "sov_pcts"
    /\ UNCHANGED <<genVars, proj, contract_value, sov_lines, residue, delivVars, billVars,
                   runVars>>

\* line_value = contract_value * normalized_pcts[i]; round(line_value / 100) * 100
LineValue(cv, pcts, i) ==
    LET x == MulDiv(cv, pcts[i], SumSeq(pcts) * 100)
    IN  RoundHalfEven(x[1], x[2], SumSeq(pcts) * 100) * 100

\* labor_pct and material_pct ranges, per mille
LaborRange(item) == IF item.equipment THEN <<150, 300>> ELSE <<550, 750>>
MaterialRange(item) == IF item.equipment THEN <<700, 850>> ELSE <<250, 450>>

\* the second loop: one SOV line per template line
SovLine ==
    /\ pc = "sov_lines"
    /\ Len(sov_lines) < NumLines
    /\ LET i == Len(sov_lines) + 1
           item == SOV_TEMPLATE[i]
       IN  \E l \in Draw(LaborRange(item)[1], LaborRange(item)[2], deviated) :
           \E m \in Draw(MaterialRange(item)[1], MaterialRange(item)[2], l[2]) :
              /\ sov_lines' = Append(sov_lines,
                     [line_number |-> item.code,
                      scheduled_value |-> LineValue(contract_value, raw_pcts, i),
                      labor_pct |-> l[1],
                      material_pct |-> m[1]])
              /\ deviated' = m[2]
    /\ pc' = IF Len(sov_lines') = NumLines THEN "sov_adjust" ELSE "sov_lines"
    /\ UNCHANGED <<genVars, proj, contract_value, raw_pcts, residue, delivVars, billVars,
                   runVars>>

ScheduledValues(lines) == [i \in 1..Len(lines) |-> lines[i].scheduled_value]

\* a slip: the repair of line 224 left out
ResidueDropped(cv, lines) == 0

\* contract_value - current_total
Residue(cv, lines) == cv - SumSeq(ScheduledValues(lines))

\* a slip: the residue put on the first line
AdjustedFirst(lines) == 1

\* the index of sov_lines[-1]
AdjustedLine(lines) == Len(lines)

\* sov_lines[-1]["scheduled_value"] += (contract_value - current_total)
AdjustLast ==
    /\ pc = "sov_adjust"
    /\ residue' = Residue(contract_value, sov_lines)
    /\ sov_lines' = [sov_lines EXCEPT
                        ![AdjustedLine(sov_lines)].scheduled_value = @ + residue']
    /\ pc' = "sov_done"
    /\ UNCHANGED <<genVars, proj, deviated, contract_value, raw_pcts, delivVars, billVars,
                   runVars>>

GenerateSov == DrawPct \/ SovLine \/ AdjustLast

----------------------------------------------------------------------------
(* generate_labor_logs *)

\* len(CREW_ROLES)
NumRoles == 8

\* the weekday of datetime(2024, 1, 1) + timedelta(days=offset): that day is a
\* Monday, and Monday is 0
WeekdayOf(offset) == offset % 7

\* project_duration_days = project["duration_months"] * 22
WorkDays(project) == project.duration_months * 22

\* phase_pct < pct / 100, for phase_pct = day / days
PhaseBelow(day, days, pct) == 100 * day < pct * days

\* the bounds of random.randint for base_crew
CrewRange(day, days, complexity) ==
    IF PhaseBelow(day, days, 15) THEN <<2, 5>>
    ELSE IF PhaseBelow(day, days, 75)
         THEN (IF complexity = "high" THEN <<8, 18>> ELSE <<5, 12>>)
    ELSE <<3, 7>>

\* a slip: the first phase's lines in every phase
ActiveNumbersEarly(day, days) == {1, 2}

\* the line numbers the phase of the day makes active
ActiveNumbers(day, days) ==
    IF PhaseBelow(day, days, 10) THEN {1, 2}
    ELSE IF PhaseBelow(day, days, 30) THEN {1, 2, 3, 4, 5}
    ELSE IF PhaseBelow(day, days, 60) THEN {1, 3, 4, 5, 6, 7, 8, 9}
    ELSE IF PhaseBelow(day, days, 85) THEN {1, 9, 10, 11, 12}
    ELSE {1, 11, 13, 14, 15}

\* active_sov_lines: the lines of sov_lines with an active number, in their
\* order, or sov_lines[0] alone if there is none
ActiveSovLines(lines, day, days) ==
    LET act == SelectSeq(lines, LAMBDA l : l.line_number \in ActiveNumbers(day, days))
    IN  IF act = <<>> THEN <<lines[1]>> ELSE act

\* a slip: the duplicates of lines 279-282 left out
WorkersSampled(base_crew) == IF base_crew < NumRoles THEN base_crew ELSE NumRoles

\* len(workers_assigned): the sample of min(base_crew, len(CREW_ROLES)) roles
\* and the base_crew - len(CREW_ROLES) duplicates
WorkersAssigned(base_crew) ==
    (IF base_crew < NumRoles THEN base_crew ELSE NumRoles)
        + (IF base_crew > NumRoles THEN base_crew - NumRoles ELSE 0)

\* a slip: overtime on top of any standard hours
HoursOutcomesLoose == {<<st, ot>> : st \in {4, 6, 8, 10}, ot \in {0, 2, 4}}

\* the pairs <<hours_st, hours_ot>> lines 289-294 may give
HoursOutcomes == {<<8, ot>> : ot \in {2, 4}} \cup {<<st, 0>> : st \in {8} \cup {4, 6, 10}}

\* sov_labor_budgets of a line: scheduled_value * labor_pct / 65, whole hours
LaborBudget(line) == MulDiv(line.scheduled_value, line.labor_pct, 65000)[1]

\* the value a draw from [lo, hi] takes at level k
LevelOf(lo, hi, k) == lo + (k * (hi - lo)) \div NumLevels

\* Within one call the draws of each kind repeat: base_crew takes the same
\* level of its range on every day, every worker is assigned the line at the
\* same level of active_sov_lines and logs the same hours.  By default the
\* levels are the middle ones and the hours 8 and 0; a run that has not
\* deviated may differ from that in one kind.
Biases(dev) ==
    LET mid == NumLevels \div 2
        dflt == [crew |-> mid, line |-> mid, hours |-> <<8, 0>>]
    IN  {<<dflt, dev>>}
            \cup (IF dev THEN {}
                  ELSE {<<[dflt EXCEPT !.crew = k], TRUE>> : k \in (0..NumLevels) \ {mid}}
                       \cup {<<[dflt EXCEPT !.line = k], TRUE>> : k \in (0..NumLevels) \ {mid}}
                       \cup {<<[dflt EXCEPT !.hours = h], TRUE>> : h \in HoursOutcomes \ {<<8, 0>>}})

\* main() calls generate_labor_logs with start_date = contract_date, the date
\* drawn at line 183; lines 231-242
CallLabor(from) ==
    /\ pc = from
    /\ \E c \in Draw(0, 90, deviated) :
       \E b \in Biases(c[2]) :
          /\ weekday' = WeekdayOf(c[1])
          /\ current_date' = c[1]
          /\ bias' = b[1]
          /\ deviated' = b[2]
    /\ day_count' = 0
    /\ day_logs' = <<>>
    /\ line_hours' = [n \in 1..Len(sov_lines) |-> 0]
    /\ pc' = "labor"
    /\ UNCHANGED <<proj, sovVars, delivVars, billVars, runVars, coVars, rfiVars,
                   noteVars, bid>>

\* a slip: the weekend test goes round without moving current_date
LaborWeekendStuck ==
    /\ pc = "labor"
    /\ day_count < WorkDays(PROJECTS[proj])
    /\ weekday >= 5
    /\ weekday' = weekday
    /\ current_date' = current_date
    /\ UNCHANGED <<pc, proj, deviated, sovVars, delivVars, billVars, runVars, coVars,
                   rfiVars, noteVars, bid, day_count, bias, day_logs, line_hours>>

\* a pass of the while loop on a Saturday or Sunday: lines 246-248
LaborWeekend ==
    /\ pc = "labor"
    /\ day_count < WorkDays(PROJECTS[proj])
    /\ weekday >= 5
    /\ weekday' = (weekday + 1) % 7
    /\ current_date' = current_date + 1
    /\ UNCHANGED <<pc, proj, deviated, sovVars, delivVars, billVars, runVars, coVars,
                   rfiVars, noteVars, bid, day_count, bias, day_logs, line_hours>>

\* the entries of one working day
DayEntries(day, days, complexity) ==
    LET range == CrewRange(day, days, complexity)
        base_crew == LevelOf(range[1], range[2], bias.crew)
        active == ActiveSovLines(sov_lines, day, days)
        assigned == active[LevelOf(1, Len(active), bias.line)]
    IN  [w \in 1..WorkersAssigned(base_crew) |->
            [date |-> current_date,
             cost_code |-> assigned.line_number,
             hours_st |-> bias.hours[1],
             hours_ot |-> bias.hours[2]]]

\* a pass of the while loop on a working day: lines 250-312
LaborDay ==
    /\ pc = "labor"
    /\ day_count < WorkDays(PROJECTS[proj])
    /\ weekday < 5
    /\ day_logs' = DayEntries(day_count, WorkDays(PROJECTS[proj]),
                              PROJECTS[proj].complexity)
    /\ line_hours' =
          [n \in 1..Len(sov_lines) |->
              line_hours[n]
                + SumSeq([w \in 1..Len(day_logs') |->
                            IF day_logs'[w].cost_code = sov_lines[n].line_number
                            THEN day_logs'[w].hours_st + day_logs'[w].hours_ot
                            ELSE 0])]
    /\ day_count' = day_count + 1
    /\ weekday' = (weekday + 1) % 7
    /\ current_date' = current_date + 1
    /\ UNCHANGED <<pc, proj, deviated, sovVars, delivVars, billVars, runVars, coVars,
                   rfiVars, noteVars, bid, bias>>

\* the while loop ends: return logs
LaborReturn ==
    /\ pc = "labor"
    /\ day_count >= WorkDays(PROJECTS[proj])
    /\ pc' = "labor_done"
    /\ UNCHANGED <<proj, deviated, sovVars, delivVars, billVars, runVars, genVars>>

GenerateLaborLogs == LaborWeekend \/ LaborDay \/ LaborReturn

----------------------------------------------------------------------------
(* generate_material_deliveries *)

\* a slip: every line taken as a materials line
MaterialLinesAll == 1..15

\* the line numbers sov_to_materials maps to a material category
MaterialLines == 3..12

\* the products days * 0.7 that double arithmetic leaves just below the integer
\* 7 * days / 10, among days = 30 * D for D up to 39
ShortOfSevenTenths == {90, 180, 330, 360, 660, 690, 720}

\* int(project_duration_days * 0.4), * 0.15, * 0.7 and * 0.9
IntDays40(days) == (4 * days) \div 10
IntDays15(days) == (15 * days) \div 100
IntDays70(days) == (7 * days) \div 10 - (IF days \in ShortOfSevenTenths THEN 1 ELSE 0)
IntDays90(days) == (9 * days) \div 10

\* a slip: the latest window for every line
OffsetWindowLate(n, days) == <<IntDays40(days), IntDays90(days)>>

\* the bounds of random.randint for day_offset, by SOV line number
OffsetWindow(n, days) ==
    IF n <= 4 THEN <<15, IntDays40(days)>>
    ELSE IF n <= 9 THEN <<IntDays15(days), IntDays70(days)>>
    ELSE <<IntDays40(days), IntDays90(days)>>

\* a slip: the weights normalised by their number and not by their sum
\* (a weight is in eighths, so that 4 is the mean of random.random())
CountTotal(weights) == 4 * Len(weights)

\* total = sum(delivery_values)
WeightTotal(weights) == SumSeq(weights)

\* round((v / total) * material_budget, 2), in cents, with
\* material_budget = scheduled_value * material_pct
TotalCost(line, weights, i) ==
    LET c == 10 * WeightTotal(weights)
        x == MulDiv(line.scheduled_value, weights[i] * line.material_pct, c)
    IN  RoundHalfEven(x[1], x[2], c)

RECURSIVE InsertByDate(_, _)
\* s, sorted by date, with d put after the deliveries of its date and before
InsertByDate(s, d) ==
    IF s = <<>> THEN <<d>>
    ELSE IF s[Len(s)].day_offset <= d.day_offset THEN Append(s, d)
    ELSE Append(InsertByDate(SubSeq(s, 1, Len(s) - 1), d), s[Len(s)])

RECURSIVE SortedByDate(_)
\* sorted(deliveries, key=lambda x: x["date"]): stable, by day since all dates
\* of a project count from one start_date
SortedByDate(s) ==
    IF s = <<>> THEN <<>>
    ELSE InsertByDate(SortedByDate(SubSeq(s, 1, Len(s) - 1)), s[Len(s)])

\* main() calls generate_material_deliveries; lines 319-320
CallDeliveries(from) ==
    /\ pc = from
    /\ pc' = "deliveries"
    /\ deliv_i' = 1
    /\ deliveries' = <<>>
    /\ UNCHANGED <<genVars, proj, deviated, sovVars, billVars, runVars>>

\* a pass of the loop over sov_lines for a line without a material category
DeliverSkip ==
    /\ pc = "deliveries"
    /\ deliv_i <= Len(sov_lines)
    /\ sov_lines[deliv_i].line_number \notin MaterialLines
    /\ deliv_i' = deliv_i + 1
    /\ UNCHANGED <<genVars, pc, proj, deviated, sovVars, deliveries, billVars, runVars>>

\* a pass of the loop over sov_lines for a line with a material category
DeliverLine ==
    /\ pc = "deliveries"
    /\ deliv_i <= Len(sov_lines)
    /\ sov_lines[deliv_i].line_number \in MaterialLines
    /\ LET line == sov_lines[deliv_i]
           win == OffsetWindow(line.line_number, PROJECTS[proj].duration_months * 30)
       IN  \E n \in Draw(3, 8, deviated) :
           \E w \in Draws(n[1], 1, 7, n[2]) :
           \E o \in Draws(n[1], win[1], win[2], w[2]) :
              /\ deliveries' = deliveries \o
                     [i \in 1..n[1] |->
                         [line_number |-> line.line_number,
                          day_offset |-> o[1][i],
                          total_cost |-> TotalCost(line, w[1], i)]]
              /\ deviated' = o[2]
    /\ deliv_i' = deliv_i + 1
    /\ UNCHANGED <<genVars, pc, proj, sovVars, billVars, runVars>>

\* return sorted(deliveries, key=lambda x: x["date"])
DeliverReturn ==
    /\ pc = "deliveries"
    /\ deliv_i > Len(sov_lines)
    /\ deliveries' = SortedByDate(deliveries)
    /\ pc' = "deliveries_done"
    /\ UNCHANGED <<genVars, proj, deviated, sovVars, deliv_i, billVars, runVars>>

GenerateMaterialDeliveries == DeliverSkip \/ DeliverLine \/ DeliverReturn

----------------------------------------------------------------------------
(* generate_billing_history *)

\* the denominator of ProgressMult(m, D)
ProgressDen(D) == 2000 * D

\* progress_mult of month m, as a numerator over ProgressDen(D):
\* month_pct * 2 below 0.15, 0.3 + (month_pct - 0.15) below 0.85,
\* 0.95 + (month_pct - 0.85) * 0.33 from there on; then min(progress_mult, 1.0)
ProgressMult(m, D) ==
    LET p == IF 100 * m < 15 * D THEN 4000 * m
             ELSE IF 100 * m < 85 * D THEN 300 * D + 2000 * m
             ELSE 1339 * D + 660 * m
    IN  IF p < ProgressDen(D) THEN p ELSE ProgressDen(D)

\* the denominator of TargetPct(n, m, D)
TargetDen(D) == 20 * ProgressDen(D)

\* a slip: the controls and closeout lines follow progress_mult without lag
TargetPctNoLag(n, m, D) ==
    LET pm == ProgressMult(m, D)
        t == IF n <= 2 THEN 26 * pm ELSE 20 * pm
    IN  IF t < TargetDen(D) THEN t ELSE TargetDen(D)

\* target_pct of SOV line number n in month m, as a numerator over TargetDen(D)
TargetPct(n, m, D) ==
    LET pm == ProgressMult(m, D)
        t == IF n <= 2 THEN 26 * pm
             ELSE IF n <= 9 THEN 20 * pm
             ELSE IF n <= 12 THEN 23 * Max0(pm - 300 * D)
             ELSE 28 * Max0(pm - 600 * D)
    IN  IF t < TargetDen(D) THEN t ELSE TargetDen(D)

\* the denominator of a damping draw: random.uniform(0.85, 1.0) is 34/40 .. 40/40
DampDen == 40
DampLo == 34
DampHi == 40

\* round(q + (n + g) / c), half to even, for 0 <= n < c and a fraction g with
\* 0 <= g < 1 that is positive iff gpos
RoundHalfEvenPlus(q, n, c, gpos) ==
    IF 2 * n > c \/ (2 * n = c /\ gpos) THEN q + 1
    ELSE IF 2 * n < c THEN q
    ELSE IF q % 2 = 0 THEN q ELSE q + 1

\* period_billing as line 723 leaves it:
\* max(target_amount - sov_billing, 0) * damp, rounded to the nearest 100
DampedBilling(value, billed, tnum, tden, damp) ==
    LET x == MulDiv(value, tnum, tden)     \* target_amount = x[1] + x[2] / tden
        k == x[1] - billed
        a == k * damp
        e == x[2] * damp
        c == DampDen * 100
        n == (a % c) + (e \div tden)
    IN  IF k < 0 THEN 0
        ELSE RoundHalfEvenPlus((a \div c) + (n \div c), n % c, c, e % tden > 0) * 100

\* if sov_billing + period_billing > sov_values: period_billing = the balance
Capped(value, billed, pb) ==
    IF billed + pb > value THEN value - billed ELSE pb

\* period_billing of one SOV line in month m
PeriodBilling(line, billed, m, D, damp) ==
    Capped(line.scheduled_value, billed,
           DampedBilling(line.scheduled_value, billed,
                         TargetPct(line.line_number, m, D), TargetDen(D), damp))

\* round(sov_billing / sov_values * 100, 1), in tenths of a percent
PctComplete(billed, value) ==
    LET x == MulDiv(billed, 1000, value) IN RoundHalfEven(x[1], x[2], value)

\* a slip: previous_billed read after the accumulation
LineItemStale(line, billed, pb) ==
    [line_number |-> line.line_number,
     scheduled_value |-> line.scheduled_value,
     previous_billed |-> billed + pb,
     this_period |-> pb,
     total_billed |-> billed + pb,
     pct_complete |-> PctComplete(billed + pb, line.scheduled_value),
     balance_to_finish |-> line.scheduled_value - (billed + pb)]

\* the line item appended for SOV line i billing pb > 0
LineItem(line, billed, pb) ==
    [line_number |-> line.line_number,
     scheduled_value |-> line.scheduled_value,
     previous_billed |-> (billed + pb) - pb,
     this_period |-> pb,
     total_billed |-> billed + pb,
     pct_complete |-> PctComplete(billed + pb, line.scheduled_value),
     balance_to_finish |-> line.scheduled_value - (billed + pb)]

RECURSIVE LineItems(_, _, _, _)
\* line_items of one month: the lines with period_billing > 0, in SOV order
LineItems(lines, billed, pb, i) ==
    IF i > Len(lines) THEN <<>>
    ELSE (IF pb[i] > 0 THEN <<LineItem(lines[i], billed[i], pb[i])>> ELSE <<>>)
         \o LineItems(lines, billed, pb, i + 1)

\* the retention rate of line 746, in percent
RetentionPct == 10

\* a slip: retention taken on the period's billing
RetentionOnPeriod(cumulative, period_total) == (RetentionPct * period_total) \div 10

\* retention = cumulative * 0.10, in tenths of a dollar
Retention(cumulative, period_total) == (RetentionPct * cumulative) \div 10

\* a slip: cumulative taken as the period's billing
CumulativeOfPeriod(billed, period_total) == period_total

\* cumulative = sum(sov_billing.values())
Cumulative(billed, period_total) == SumSeq(billed)

\* the record appended to billing for month m; retention_held and
\* net_payment_due are in tenths of a dollar
Application(m, period_total, billed, items) ==
    LET cumulative == Cumulative(billed, period_total)
        retention == Retention(cumulative, period_total)
    IN  [application_number |-> m + 1,
         period_total |-> period_total,
         cumulative_billed |-> cumulative,
         retention_held |-> retention,
         net_payment_due |-> 10 * cumulative - retention,
         line_items |-> items]

\* a slip: every month emits its application
EmitsAlways(period_total) == TRUE

\* if period_total > 0
Emits(period_total) == period_total > 0

\* a slip: sov_values rounded to the thousand in the SOV lines themselves
CallBillingRounding(from) ==
    /\ pc = from
    /\ pc' = "billing"
    /\ month' = 0
    /\ sov_billing' = [i \in 1..Len(sov_lines) |-> 0]
    /\ billing' = <<>>
    /\ sov_lines' = [i \in 1..Len(sov_lines) |->
                        [sov_lines[i] EXCEPT !.scheduled_value = (@ \div 1000) * 1000]]
    /\ UNCHANGED <<genVars, proj, deviated, contract_value, raw_pcts, residue,
                   delivVars, runVars>>

\* main() calls generate_billing_history; lines 674-681
CallBilling(from) ==
    /\ pc = from
    /\ pc' = "billing"
    /\ month' = 0
    /\ sov_billing' = [i \in 1..Len(sov_lines) |-> 0]
    /\ billing' = <<>>
    /\ UNCHANGED <<genVars, proj, deviated, sovVars, delivVars, runVars>>

\* period_billing of every SOV line in month m, under the damping draws damp
PeriodBillings(lines, billed, m, D, damp) ==
    [i \in 1..Len(lines) |-> PeriodBilling(lines[i], billed[i], m, D, damp[i])]

\* a slip: the month's running period_total added to the line
AccumulateRunning(billed, pb, i) ==
    billed[i] + SumSeq([j \in 1..i |-> Max0(pb[j])])

\* if period_billing > 0: sov_billing[sov_id] += period_billing
Accumulate(billed, pb, i) == billed[i] + Max0(pb[i])

\* the body of the month loop after its draws: the new sov_billing and billing
BillMonth(m, pb) ==
    LET billed == [i \in 1..Len(sov_lines) |-> Accumulate(sov_billing, pb, i)]
        period_total == SumSeq([i \in 1..Len(sov_lines) |-> Max0(pb[i])])
    IN  /\ sov_billing' = billed
        /\ billing' = IF Emits(period_total)
                      THEN Append(billing,
                               Application(m, period_total, billed,
                                   LineItems(sov_lines, sov_billing, pb, 1)))
                      ELSE billing

\* one pass of the loop over range(project_duration_months + 1): every line
\* draws its damping, one line at most away from the default
BillingMonth ==
    /\ pc = "billing"
    /\ LET D == PROJECTS[proj].duration_months
           dflt == [i \in 1..Len(sov_lines) |-> Default(DampLo, DampHi)]
       IN  /\ \E pb \in {PeriodBillings(sov_lines, sov_billing, month, D, dflt)} :
                \/ /\ BillMonth(month, pb)
                   /\ deviated' = deviated
                \/ /\ ~deviated
                   /\ \E l \in 1..Len(sov_lines) :
                      \E v \in Levels(DampLo, DampHi) \ {Default(DampLo, DampHi)} :
                         BillMonth(month,
                             [pb EXCEPT ![l] = PeriodBilling(sov_lines[l],
                                                   sov_billing[l], month, D, v)])
                   /\ deviated' = TRUE
           /\ IF month < D
              THEN month' = month + 1 /\ pc' = "billing"
              ELSE month' = month /\ pc' = "billing_done"
    /\ UNCHANGED <<genVars, proj, sovVars, delivVars, runVars>>

----------------------------------------------------------------------------
(* generate_rfis *)

\* Python's None, where the model keeps a number of days
None == -1

\* if x: the truth value Python gives a number of days or None
Truthy(x) == x # None /\ x # 0

\* random.choice(seq), or random.choices(seq, weights)[0], in a run whose
\* deviated is dev: the pairs <<element drawn, deviated afterwards>>; the
\* default is the element the default level points at
Pick(seq, dev) ==
    LET d == Default(1, Len(seq))
    IN  {<<seq[d], dev>>}
            \cup (IF dev THEN {}
                  ELSE {<<seq[k], TRUE>> : k \in (1..Len(seq)) \ {d}})

\* the bounds of random.randint for num_rfis, by complexity
NumRfisRange(complexity) ==
    CASE complexity = "low" -> <<15, 30>>
      [] complexity = "medium" -> <<30, 60>>
      [] complexity = "high" -> <<50, 100>>

\* the population random.choices draws response_days from
ResponseDays == <<3, 5, 7, 10, 14, 21, None>>

\* response_date, as a day after start_date: submit_date + response_days if
\* response_days else None
ResponseDate(submit, response_days) ==
    IF Truthy(response_days) THEN submit + response_days ELSE None

\* a slip: every RFI taken as responded
RespondedAlways(response_date) == TRUE

\* if response_date: a date string is true, None is not
Responded(response_date) == response_date # None

\* the statuses line 523 may give
RfiStatuses(response_date) ==
    IF Responded(response_date) THEN {"Closed"} ELSE {"Open", "Pending Response"}

RECURSIVE SubmittedOn(_, _)
\* the records of s submitted on a date of dates, by date, those of one date
\* in the order they have in s
SubmittedOn(s, dates) ==
    IF dates = {} THEN <<>>
    ELSE LET first == CHOOSE d \in dates : \A e \in dates : d <= e
         IN  SelectSeq(s, LAMBDA r : r.date_submitted = first)
                 \o SubmittedOn(s, dates \ {first})

\* sorted(s, key=lambda x: x["date_submitted"]): stable
SortedBySubmitted(s) ==
    SubmittedOn(s, {s[k].date_submitted : k \in 1..Len(s)})

\* a slip: the margin of 14 days taken in months
RfiOffsetMonths(days) == <<14 * 30, days - 14 * 30>>

\* the bounds of random.randint(14, project_duration_days - 14)
RfiOffsetRange(days) == <<14, days - 14>>

\* main() calls generate_rfis; lines 489-497
CallRfis(from) ==
    /\ pc = from
    /\ \E n \in Draw(NumRfisRange(PROJECTS[proj].complexity)[1],
                     NumRfisRange(PROJECTS[proj].complexity)[2], deviated) :
          /\ num_rfis' = n[1]
          /\ deviated' = n[2]
    /\ rfis' = <<>>
    /\ pc' = "rfis"
    /\ UNCHANGED <<proj, sovVars, delivVars, billVars, runVars, laborVars, coVars,
                   noteVars, bid>>

\* a pass of the loop over range(num_rfis)
RfiStep ==
    /\ pc = "rfis"
    /\ Len(rfis) < num_rfis
    /\ \E o \in Draw(RfiOffsetRange(PROJECTS[proj].duration_months * 30)[1],
                     RfiOffsetRange(PROJECTS[proj].duration_months * 30)[2], deviated) :
       \E r \in Pick(ResponseDays, o[2]) :
       \E st \in RfiStatuses(ResponseDate(o[1], r[1])) :
          /\ rfis' = Append(rfis,
                 [rfi_number |-> Len(rfis) + 1,
                  date_submitted |-> o[1],
                  status |-> st,
                  date_responded |-> ResponseDate(o[1], r[1])])
          /\ deviated' = r[2]
    /\ UNCHANGED <<pc, proj, sovVars, delivVars, billVars, runVars, laborVars, coVars,
                   num_rfis, noteVars, bid>>

\* return sorted(rfis, key=lambda x: x["date_submitted"])
RfisReturn ==
    /\ pc = "rfis"
    /\ Len(rfis) = num_rfis
    /\ rfis' = SortedBySubmitted(rfis)
    /\ pc' = "rfis_done"
    /\ UNCHANGED <<proj, deviated, sovVars, delivVars, billVars, runVars, laborVars,
                   coVars, num_rfis, noteVars, bid>>

GenerateRfis == RfiStep \/ RfisReturn

----------------------------------------------------------------------------
(* generate_change_orders *)

\* reason_type of the entries of CHANGE_ORDER_REASONS
CHANGE_ORDER_REASONS == <<
    "Owner Request", "Design Error", "Unforeseen Condition", "Coordination",
    "Code Compliance", "Value Engineering", "Scope Gap", "Acceleration" >>

\* the bounds of random.randint for num_cos, by complexity
NumCosRange(complexity) ==
    CASE complexity = "low" -> <<3, 6>>
      [] complexity = "medium" -> <<6, 12>>
      [] complexity = "high" -> <<10, 20>>

\* the bounds of random.uniform for the share of the contract value, in 1/10000
CoShareRange(reason_type) ==
    IF reason_type = "Value Engineering" THEN <<20, 150>>
    ELSE IF reason_type \in {"Owner Request", "Scope Gap"} THEN <<50, 400>>
    ELSE <<20, 250>>

\* a slip: every change order an addition
CoSignAdd(reason_type) == 1

\* the sign of co_value: -1 * ... for a Value Engineering credit
CoSign(reason_type) == IF reason_type = "Value Engineering" THEN -1 ELSE 1

\* round(co_value / 100) * 100 for co_value = sign * share * contract_value;
\* round() takes a negative value as it takes its opposite
CoValue(reason_type, share, cv) ==
    LET x == MulDiv(cv, share, 1000000)
    IN  CoSign(reason_type) * RoundHalfEven(x[1], x[2], 1000000) * 100

\* a slip: the choice of the youngest tier at every age
StatusChoicesYoung(age_days) == <<"Pending", "Under Review">>

\* the list random.choice draws status from, by age_days (lines 450-455)
StatusChoices(age_days) ==
    IF age_days < 14 THEN <<"Pending", "Under Review">>
    ELSE IF age_days < 45 THEN <<"Under Review", "Approved", "Rejected">>
    ELSE <<"Approved", "Approved", "Approved", "Rejected">>

\* the bounds of random.randint(30, project_duration_days - 30)
CoOffsetRange(days) == <<30, days - 30>>

\* the days datetime.now() may be at: around the default date of a change
\* order, at the edges of the tiers of age
NowDays(days) ==
    {Default(CoOffsetRange(days)[1], CoOffsetRange(days)[2]) + a :
        a \in {-1, 13, 14, 44, 45}}

\* main() calls generate_change_orders; lines 418-427
CallChangeOrders(from) ==
    /\ pc = from
    /\ \E n \in Draw(NumCosRange(PROJECTS[proj].complexity)[1],
                     NumCosRange(PROJECTS[proj].complexity)[2], deviated) :
          /\ num_cos' = n[1]
          /\ deviated' = n[2]
    /\ now' \in NowDays(PROJECTS[proj].duration_months * 30)
    /\ change_orders' = <<>>
    /\ pc' = "cos"
    /\ UNCHANGED <<proj, sovVars, delivVars, billVars, runVars, laborVars, rfiVars,
                   noteVars, bid>>

\* a pass of the loop over range(num_cos)
CoStep ==
    /\ pc = "cos"
    /\ Len(change_orders) < num_cos
    /\ \E r \in Pick(CHANGE_ORDER_REASONS, deviated) :
       \E sh \in Draw(CoShareRange(r[1])[1], CoShareRange(r[1])[2], r[2]) :
       \E o \in Draw(CoOffsetRange(PROJECTS[proj].duration_months * 30)[1],
                     CoOffsetRange(PROJECTS[proj].duration_months * 30)[2], sh[2]) :
       \E st \in Pick(StatusChoices(now - o[1]), o[2]) :
          /\ change_orders' = Append(change_orders,
                 [co_number |-> Len(change_orders) + 1,
                  date_submitted |-> o[1],
                  reason_category |-> r[1],
                  amount |-> CoValue(r[1], sh[1], contract_value),
                  status |-> st[1]])
          /\ deviated' = st[2]
    /\ UNCHANGED <<pc, proj, sovVars, delivVars, billVars, runVars, laborVars, rfiVars,
                   noteVars, bid, num_cos, now>>

\* return sorted(change_orders, key=lambda x: x["date_submitted"])
CosReturn ==
    /\ pc = "cos"
    /\ Len(change_orders) = num_cos
    /\ change_orders' = SortedBySubmitted(change_orders)
    /\ pc' = "cos_done"
    /\ UNCHANGED <<proj, deviated, sovVars, delivVars, billVars, runVars, laborVars,
                   rfiVars, noteVars, bid, num_cos, now>>

GenerateChangeOrders == CoStep \/ CosReturn

----------------------------------------------------------------------------
(* generate_field_notes *)

\* the test random.random() < 0.7 in a run whose deviated is dev: the pairs
\* <<outcome, deviated afterwards>>, to hold being the default
Chance(dev) == {<<TRUE, dev>>} \cup (IF dev THEN {} ELSE {<<FALSE, TRUE>>})

\* main() calls generate_field_notes with start_date = contract_date, the date
\* drawn at line 183; lines 552-556
CallNotes(from) ==
    /\ pc = from
    /\ \E c \in Draw(0, 90, deviated) :
          /\ note_weekday' = WeekdayOf(c[1])
          /\ deviated' = c[2]
    /\ note_days' = 0
    /\ notes' = <<>>
    /\ pc' = "notes"
    /\ UNCHANGED <<proj, sovVars, delivVars, billVars, runVars, laborVars, coVars,
                   rfiVars, bid>>

\* a pass of the while loop on a Saturday or Sunday: lines 560-562
NotesWeekend ==
    /\ pc = "notes"
    /\ note_days < WorkDays(PROJECTS[proj])
    /\ note_weekday >= 5
    /\ note_weekday' = (note_weekday + 1) % 7
    /\ UNCHANGED <<pc, proj, deviated, sovVars, delivVars, billVars, runVars, laborVars,
                   coVars, rfiVars, bid, note_days, notes>>

\* a pass of the while loop on a working day: lines 564-667
NotesDay ==
    /\ pc = "notes"
    /\ note_days < WorkDays(PROJECTS[proj])
    /\ note_weekday < 5
    /\ \E c \in Chance(deviated) :
          /\ notes' = IF c[1] THEN Append(notes, note_days) ELSE notes
          /\ deviated' = c[2]
    /\ note_days' = note_days + 1
    /\ note_weekday' = (note_weekday + 1) % 7
    /\ UNCHANGED <<pc, proj, sovVars, delivVars, billVars, runVars, laborVars, coVars,
                   rfiVars, bid>>

\* the while loop ends: return notes
NotesReturn ==
    /\ pc = "notes"
    /\ note_days >= WorkDays(PROJECTS[proj])
    /\ pc' = "notes_done"
    /\ UNCHANGED <<proj, deviated, sovVars, delivVars, billVars, runVars, genVars>>

GenerateFieldNotes == NotesWeekend \/ NotesDay \/ NotesReturn

----------------------------------------------------------------------------
(* generate_bid_estimate *)

\* round(total_labor_hours), the sum over the lines of
\* scheduled_value * labor_pct / 65
TotalHoursEstimated(lines) ==
    LET q == SumSeq([i \in 1..Len(lines) |->
                       MulDiv(lines[i].scheduled_value, lines[i].labor_pct, 65000)[1]])
        r == SumSeq([i \in 1..Len(lines) |->
                       MulDiv(lines[i].scheduled_value, lines[i].labor_pct, 65000)[2]])
    IN  RoundHalfEven(q + (r \div 65000), r % 65000, 65000)

\* main() calls generate_bid_estimate, which returns the bid
GenerateBidEstimate(from) ==
    /\ pc = from
    /\ bid' = TotalHoursEstimated(sov_lines)
    /\ pc' = "bid_done"
    /\ UNCHANGED <<proj, deviated, sovVars, delivVars, billVars, runVars, laborVars,
                   coVars, rfiVars, noteVars>>

----------------------------------------------------------------------------
(* Two executions of the program with one seed *)

\* Every value of the random module comes from the generator seeded at line
\* 17: the k-th value a run consumes is tape[k], whichever run asks first.
\* uuid.uuid4() and datetime.now() do not come from it.
Values == 0..(NumValues - 1)

\* the next value of the seeded generator for the executing run: it reads the
\* tape where an earlier run has written it, and extends the tape elsewhere
Seeded(v) ==
    /\ rng' = [rng EXCEPT ![run] = @ + 1]
    /\ IF rng[run] < Len(tape)
       THEN v = tape[rng[run] + 1] /\ tape' = tape
       ELSE tape' = Append(tape, v)

\* status of a change order of age age_days, by the value v drawn for
\* random.choice (lines 449-455)
Status(age_days, v) ==
    StatusChoices(age_days)[(v % Len(StatusChoices(age_days))) + 1]

\* the ages datetime.now() - co_date may show: one of each tier
Ages == {0, 14, 45}

\* generate_labor_logs appends an entry: log_id from uuid4, employee_id seeded
RunLaborEntry ==
    /\ pc = "run_labor"
    /\ \E u \in Values : \E v \in Values :
          /\ Seeded(v)
          /\ out' = [out EXCEPT ![run] =
                        Append(@, [table |-> "labor_logs", id |-> u, value |-> v,
                                   status |-> "none"])]
    /\ pc' = "run_delivery"
    /\ UNCHANGED <<genVars, proj, deviated, sovVars, delivVars, billVars, run, clock>>

\* generate_material_deliveries appends a delivery: delivery_id from uuid4,
\* po_number seeded
RunDelivery ==
    /\ pc = "run_delivery"
    /\ \E u \in Values : \E v \in Values :
          /\ Seeded(v)
          /\ out' = [out EXCEPT ![run] =
                        Append(@, [table |-> "material_deliveries", id |-> u,
                                   value |-> v, status |-> "none"])]
    /\ pc' = "run_change_order"
    /\ UNCHANGED <<genVars, proj, deviated, sovVars, delivVars, billVars, run, clock>>

\* generate_change_orders appends a change order: co_number counted, status
\* from the seeded choice and the age on the run's clock
RunChangeOrder ==
    /\ pc = "run_change_order"
    /\ \E v \in Values :
          /\ Seeded(v)
          /\ out' = [out EXCEPT ![run] =
                        Append(@, [table |-> "change_orders", id |-> 1, value |-> v,
                                   status |-> Status(clock[run], v)])]
    /\ pc' = "run_end"
    /\ UNCHANGED <<genVars, proj, deviated, sovVars, delivVars, billVars, run, clock>>

\* the first execution ends and the second one starts, seeded as the first
RunAgain ==
    /\ pc = "run_end"
    /\ run = 1
    /\ run' = 2
    /\ pc' = "run_labor"
    /\ UNCHANGED <<genVars, proj, deviated, sovVars, delivVars, billVars, tape, rng, clock, out>>

\* the second execution ends
RunsDone ==
    /\ pc = "run_end"
    /\ run = 2
    /\ pc' = "runs_done"
    /\ UNCHANGED <<genVars, proj, deviated, sovVars, delivVars, billVars, runVars>>

----------------------------------------------------------------------------
(* Specifications *)

InitProject ==
    /\ contract_value = 0
    /\ raw_pcts = <<>>
    /\ sov_lines = <<>>
    /\ residue = 0
    /\ deliv_i = 0
    /\ deliveries = <<>>
    /\ month = 0
    /\ sov_billing = <<>>
    /\ billing = <<>>
    /\ day_count = 0
    /\ weekday = 0
    /\ current_date = 0
    /\ bias = [crew |-> 0, line |-> 0, hours |-> <<0, 0>>]
    /\ day_logs = <<>>
    /\ line_hours = <<>>
    /\ num_cos = 0
    /\ now = 0
    /\ change_orders = <<>>
    /\ num_rfis = 0
    /\ rfis = <<>>
    /\ note_days = 0
    /\ note_weekday = 0
    /\ notes = <<>>
    /\ bid = 0

InitRuns ==
    /\ run = 1
    /\ tape = <<>>
    /\ rng = [r \in {1, 2} |-> 0]
    /\ clock = [r \in {1, 2} |-> 0]
    /\ out = [r \in {1, 2} |-> <<>>]

\* main() at its first project, in a run whose draws all take their default
Init ==
    /\ pc = "contract"
    /\ proj = 1
    /\ deviated = TRUE
    /\ InitProject
    /\ InitRuns

\* a slip: every generator called as soon as the SOV is there
CalledAfterSov(component) == "sov_done"

\* where main() stands when it calls a component: the value of pc the
\* component called before it in the loop body leaves (lines 886-924)
CalledAfter(component) ==
    CASE component = "labor" -> "sov_done"
      [] component = "deliveries" -> "labor_done"
      [] component = "change_orders" -> "deliveries_done"
      [] component = "rfis" -> "cos_done"
      [] component = "field_notes" -> "rfis_done"
      [] component = "billing" -> "notes_done"
      [] component = "bid" -> "billing_done"
      [] component = "next" -> "bid_done"

\* the loop of main() goes on to the next project
NextProject ==
    /\ pc = CalledAfter("next")
    /\ proj < Len(PROJECTS)
    /\ proj' = proj + 1
    /\ pc' = "contract"
    /\ UNCHANGED <<genVars, deviated, sovVars, delivVars, billVars, runVars>>

\* the loop of main() is over: the outputs are saved
SaveOutputs ==
    /\ pc = CalledAfter("next")
    /\ proj = Len(PROJECTS)
    /\ pc' = "saved"
    /\ UNCHANGED <<genVars, proj, deviated, sovVars, delivVars, billVars, runVars>>

Next ==
    \/ GenerateContractValue
    \/ GenerateSov
    \/ CallLabor(CalledAfter("labor"))
    \/ GenerateLaborLogs
    \/ CallDeliveries(CalledAfter("deliveries"))
    \/ GenerateMaterialDeliveries
    \/ CallChangeOrders(CalledAfter("change_orders"))
    \/ GenerateChangeOrders
    \/ CallRfis(CalledAfter("rfis"))
    \/ GenerateRfis
    \/ CallNotes(CalledAfter("field_notes"))
    \/ GenerateFieldNotes
    \/ CallBilling(CalledAfter("billing"))
    \/ BillingMonth
    \/ GenerateBidEstimate(CalledAfter("bid"))
    \/ NextProject
    \/ SaveOutputs

Spec == Init /\ [][Next]_vars

\* a generator run for any one project of the catalog
InitOne ==
    /\ pc = "contract"
    /\ proj \in 1..Len(PROJECTS)
    /\ deviated = FALSE
    /\ InitProject
    /\ InitRuns

\* generate_sov on the contract of any one project
NextSov == GenerateContractValue \/ GenerateSov

SpecSov == InitOne /\ [][NextSov]_vars

\* generate_material_deliveries on the SOV of any one project
NextDeliveries == NextSov \/ CallDeliveries("sov_done") \/ GenerateMaterialDeliveries

SpecDeliveries == InitOne /\ [][NextDeliveries]_vars

\* generate_billing_history on the SOV of any one project
NextBilling == NextSov \/ CallBilling("sov_done") \/ BillingMonth

SpecBilling == InitOne /\ [][NextBilling]_vars

\* two executions, each with its own clock
InitTwoRuns ==
    /\ pc = "run_labor"
    /\ proj = 1
    /\ deviated = FALSE
    /\ InitProject
    /\ run = 1
    /\ tape = <<>>
    /\ rng = [r \in {1, 2} |-> 0]
    /\ clock \in [{1, 2} -> Ages]
    /\ out = [r \in {1, 2} |-> <<>>]

NextRuns == RunLaborEntry \/ RunDelivery \/ RunChangeOrder \/ RunAgain \/ RunsDone

SpecRuns == InitTwoRuns /\ [][NextRuns]_vars

\* generate_rfis for any one project
NextRfis == CallRfis("contract") \/ GenerateRfis

SpecRfis == InitOne /\ [][NextRfis]_vars

\* generate_change_orders on the contract of any one project
NextCos == GenerateContractValue \/ CallChangeOrders("sov_pcts") \/ GenerateChangeOrders

SpecCos == InitOne /\ [][NextCos]_vars

\* any one of generate_sov, generate_material_deliveries, generate_change_orders,
\* generate_rfis and generate_billing_history, on its arguments, for any one
\* project
NextGenerators ==
    \/ NextSov
    \/ CallDeliveries("sov_done")
    \/ GenerateMaterialDeliveries
    \/ CallChangeOrders("sov_done")
    \/ GenerateChangeOrders
    \/ CallRfis("contract")
    \/ GenerateRfis
    \/ CallBilling("sov_done")
    \/ BillingMonth

SpecGenerators == InitOne /\ [][NextGenerators]_vars

\* the contract value and the SOV of project p in a run of defaults: what
\* generate_contract_value and generate_sov leave when no draw deviates
DefaultContractValue(p) ==
    BaseCost(PROJECTS[p], Default(CostPerSf(PROJECTS[p].type)[1],
                                  CostPerSf(PROJECTS[p].type)[2]))

DefaultPcts == [i \in 1..NumLines |-> Default(SOV_TEMPLATE[i].lo, SOV_TEMPLATE[i].hi)]

DefaultSovLines(p) ==
    LET lines == [i \in 1..NumLines |->
                    [line_number |-> SOV_TEMPLATE[i].code,
                     scheduled_value |-> LineValue(DefaultContractValue(p), DefaultPcts, i),
                     labor_pct |-> Default(LaborRange(SOV_TEMPLATE[i])[1],
                                           LaborRange(SOV_TEMPLATE[i])[2]),
                     material_pct |-> Default(MaterialRange(SOV_TEMPLATE[i])[1],
                                              MaterialRange(SOV_TEMPLATE[i])[2])]]
    IN  [lines EXCEPT ![AdjustedLine(lines)].scheduled_value =
                          @ + Residue(DefaultContractValue(p), lines)]

\* main() after generate_sov has returned for any one project, no draw of the
\* run having deviated yet
InitSovDone ==
    /\ pc = "sov_done"
    /\ proj \in 1..Len(PROJECTS)
    /\ deviated = FALSE
    /\ InitRuns
    /\ contract_value = DefaultContractValue(proj)
    /\ raw_pcts = DefaultPcts
    /\ sov_lines = DefaultSovLines(proj)
    /\ residue = contract_value - SumSeq([i \in 1..NumLines |->
                     LineValue(contract_value, DefaultPcts, i)])
    /\ deliv_i = 0
    /\ deliveries = <<>>
    /\ month = 0
    /\ sov_billing = <<>>
    /\ billing = <<>>
    /\ day_count = 0
    /\ weekday = 0
    /\ current_date = 0
    /\ bias = [crew |-> 0, line |-> 0, hours |-> <<0, 0>>]
    /\ day_logs = <<>>
    /\ line_hours = <<>>
    /\ num_cos = 0
    /\ now = 0
    /\ change_orders = <<>>
    /\ num_rfis = 0
    /\ rfis = <<>>
    /\ note_days = 0
    /\ note_weekday = 0
    /\ notes = <<>>
    /\ bid = 0

\* generate_labor_logs on the SOV of any one project
NextLabor == CallLabor("sov_done") \/ GenerateLaborLogs

SpecLabor == InitSovDone /\ [][NextLabor]_vars

\* a sequential program goes on to its next statement: the loop of
\* generate_labor_logs takes a pass, or returns, whenever it can
FairLabor == SpecLabor /\ WF_vars(GenerateLaborLogs)

----------------------------------------------------------------------------
(* Properties *)

\* generate_sov has returned its lines
SovReturned ==
    pc \in {"sov_done", "deliveries", "deliveries_done", "billing", "billing_done"}

\* C1: once generate_sov has returned, the scheduled_value of its 15 lines sum
\* to the contract value exactly, whatever was drawn and however lines rounded.
C1_SovConservation ==
    SovReturned =>
        /\ Len(sov_lines) = NumLines
        /\ SumSeq(ScheduledValues(sov_lines)) = contract_value

\* generate_sov has returned and the rounded lines did not add up by themselves
C1_Witness == SovReturned /\ residue # 0

\* v is within 50 of cv * pcts[i] / sum(pcts), the share of line i
WithinFifty(v, cv, pcts, i) ==
    LET x == MulDiv(cv, pcts[i], SumSeq(pcts))
    IN  /\ v - x[1] <= 50
        /\ \/ x[1] - v < 50
           \/ x[1] - v = 50 /\ x[2] = 0

\* C10: in the result of generate_sov each of the first 14 lines is a multiple
\* of 100 and the nearest one to its share; the last line is its own rounded
\* share plus the whole residue, so it alone carries the residue.
C10_OnlyLastCarriesResidue ==
    SovReturned =>
        \A i \in 1..NumLines :
            LET v == sov_lines[i].scheduled_value
                     - (IF i = NumLines THEN residue ELSE 0)
            IN  /\ v % 100 = 0
                /\ WithinFifty(v, contract_value, raw_pcts, i)

\* generate_sov has returned after lowering or raising the last line, which
\* still is a positive amount
C10_Witness ==
    /\ SovReturned
    /\ residue \in {-100, 100}
    /\ sov_lines[NumLines].scheduled_value > 0

\* generate_billing_history is running or has returned
InBilling == pc \in {"billing", "billing_done"}

\* the duration_months of the project being processed
Duration == PROJECTS[proj].duration_months

\* all the line items emitted so far
AllItems ==
    UNION {{billing[a].line_items[k] : k \in 1..Len(billing[a].line_items)} :
           a \in 1..Len(billing)}

\* C2: in generate_billing_history, after every month, no SOV line has been
\* billed more than its scheduled_value, and no emitted line item has
\* total_billed above scheduled_value.
C2_BilledWithinScheduled ==
    InBilling =>
        /\ \A i \in 1..NumLines : sov_billing[i] <= sov_lines[i].scheduled_value
        /\ \A it \in AllItems : it.total_billed <= it.scheduled_value

\* a line item that bills its line out: total_billed reaches scheduled_value
C2_Witness ==
    /\ InBilling
    /\ \E it \in AllItems : it.this_period > 0 /\ it.total_billed = it.scheduled_value

\* C3: over the applications of one contract, in increasing
\* application_number, cumulative_billed never decreases, and it never exceeds
\* the sum of the scheduled_value of all SOV lines.
C3_CumulativeMonotone ==
    InBilling =>
        /\ \A a \in 1..Len(billing) :
              billing[a].cumulative_billed <= SumSeq(ScheduledValues(sov_lines))
        /\ \A a \in 1..(Len(billing) - 1) :
              /\ billing[a].application_number < billing[a + 1].application_number
              /\ billing[a].cumulative_billed <= billing[a + 1].cumulative_billed

\* the history has returned with applications whose cumulative_billed grew
C3_Witness ==
    /\ pc = "billing_done"
    /\ Len(billing) >= 2
    /\ billing[1].cumulative_billed < billing[Len(billing)].cumulative_billed

\* C4: for a project of duration_months D, generate_billing_history returns
\* exactly D + 1 applications, one for each month 0..D.
C4_OneApplicationPerMonth ==
    pc = "billing_done" =>
        /\ Len(billing) = Duration + 1
        /\ \A m \in 0..Duration : billing[m + 1].application_number = m + 1

\* C5: after the last month, cumulative_billed of the final application is
\* within $100 of the sum of the scheduled_value of all SOV lines.
C5_BilledOutInFull ==
    pc = "billing_done" =>
        /\ billing # <<>>
        /\ SumSeq(ScheduledValues(sov_lines))
             - billing[Len(billing)].cumulative_billed <= 100

\* C7: every application has retention_held = 0.10 * cumulative_billed and
\* net_payment_due = cumulative_billed - retention_held (both kept in tenths
\* of a dollar), and the cumulative_billed of the latest one is the sum over
\* the SOV lines of what each has been billed so far.
C7_RetentionAndNet ==
    InBilling =>
        /\ \A a \in 1..Len(billing) :
              /\ 10 * billing[a].retention_held
                    = RetentionPct * billing[a].cumulative_billed
              /\ billing[a].net_payment_due
                    = 10 * billing[a].cumulative_billed - billing[a].retention_held
        /\ billing # <<>> =>
              billing[Len(billing)].cumulative_billed = SumSeq(sov_billing)

\* an application whose cumulative_billed is more than its own period_total
C7_Witness ==
    /\ InBilling
    /\ \E a \in 1..Len(billing) :
          /\ billing[a].cumulative_billed > billing[a].period_total
          /\ billing[a].retention_held > 0

\* C8: a month appends an application iff the month's period_total, the amount
\* the month added to sov_billing, is positive; the application then carries
\* that period_total, the month's number plus one and at least one line item.
C8_EmittedIffBilled ==
    [][pc = "billing" =>
          LET period_total == SumSeq(sov_billing') - SumSeq(sov_billing)
          IN  IF period_total > 0
              THEN /\ Len(billing') = Len(billing) + 1
                   /\ billing'[Len(billing')].period_total = period_total
                   /\ billing'[Len(billing')].application_number = month + 1
                   /\ Len(billing'[Len(billing')].line_items) >= 1
                   /\ SubSeq(billing', 1, Len(billing)) = billing
              ELSE billing' = billing]_vars

\* the history has returned, with some months emitted and one of the months
\* 1..D skipped because no line billed in it
C8_Witness ==
    /\ pc = "billing_done"
    /\ Len(billing) > 0
    /\ \E m \in 1..Duration :
          \A a \in 1..Len(billing) : billing[a].application_number # m + 1

\* the total_cost, in cents, of the deliveries of SOV line number n, in order
CostsOfLine(n) ==
    LET idx == {k \in 1..Len(deliveries) : deliveries[k].line_number = n}
        RECURSIVE Take(_, _)
        Take(k, acc) ==
            IF k > Len(deliveries) THEN acc
            ELSE Take(k + 1, IF k \in idx THEN Append(acc, deliveries[k].total_cost)
                                          ELSE acc)
    IN  Take(1, <<>>)

\* scheduled_value * material_pct of a line, in cents
MaterialBudget(line) == (line.scheduled_value \div 10) * line.material_pct

\* the SOV lines the delivery loop has dealt with and given deliveries
Delivered ==
    {i \in 1..Len(sov_lines) :
        /\ pc \in {"deliveries", "deliveries_done"}
        /\ i < deliv_i
        /\ sov_lines[i].line_number \in MaterialLines}

\* C9: for every SOV line that has received deliveries, the total_cost of its
\* deliveries sum to scheduled_value * material_pct to within half a cent per
\* delivery, before and after the deliveries are sorted by date.
C9_DeliveriesSumToBudget ==
    \A i \in Delivered :
        LET costs == CostsOfLine(sov_lines[i].line_number)
            diff == SumSeq(costs) - MaterialBudget(sov_lines[i])
        IN  /\ Len(costs) >= 3
            /\ 2 * diff <= Len(costs)
            /\ -2 * diff <= Len(costs)

\* the sorted deliveries have been returned, and those of some line, of unequal
\* cost, do not sum to the budget to the cent
C9_Witness ==
    /\ pc = "deliveries_done"
    /\ \E i \in Delivered :
          LET costs == CostsOfLine(sov_lines[i].line_number)
          IN  /\ SumSeq(costs) # MaterialBudget(sov_lines[i])
              /\ \E j, k \in 1..Len(costs) : costs[j] # costs[k]

\* C6: when two executions with the same seed have ended, their records agree
\* one by one in every field, the status of a change order excepted.
C6_SameSeedSameOutput ==
    pc = "runs_done" =>
        /\ Len(out[1]) = Len(out[2])
        /\ \A k \in 1..Len(out[1]) :
              /\ out[1][k].table = out[2][k].table
              /\ out[1][k].id = out[2][k].id
              /\ out[1][k].value = out[2][k].value
              /\ out[1][k].table # "change_orders" =>
                    out[1][k].status = out[2][k].status


\* C11: every RFI of generate_rfis has a date_responded iff its status is
\* Closed; an RFI without response is Open or Pending Response and has none.
C11_RespondedIffClosed ==
    pc \in {"rfis", "rfis_done"} =>
        \A k \in 1..Len(rfis) :
            /\ rfis[k].status \in {"Closed", "Open", "Pending Response"}
            /\ rfis[k].date_responded # None <=> rfis[k].status = "Closed"
            /\ rfis[k].date_responded # None =>
                  rfis[k].date_responded > rfis[k].date_submitted

\* the sorted log has been returned with a closed RFI and one pending response
C11_Witness ==
    /\ pc = "rfis_done"
    /\ \E k \in 1..Len(rfis) :
          rfis[k].status = "Closed" /\ rfis[k].date_responded # None
    /\ \E k \in 1..Len(rfis) :
          rfis[k].status = "Pending Response" /\ rfis[k].date_responded = None


\* generate_change_orders is running or has returned
InCos == pc \in {"cos", "cos_done"}

\* C12: the amount of every change order is a multiple of 100, negative when
\* its reason category is Value Engineering and positive for any other one.
C12_AmountSign ==
    InCos =>
        \A k \in 1..Len(change_orders) :
            /\ change_orders[k].amount % 100 = 0
            /\ change_orders[k].reason_category = "Value Engineering" =>
                  change_orders[k].amount < 0
            /\ change_orders[k].reason_category # "Value Engineering" =>
                  change_orders[k].amount > 0

\* the sorted change orders hold a credit and an addition
C12_Witness ==
    /\ pc = "cos_done"
    /\ \E k \in 1..Len(change_orders) :
          /\ change_orders[k].reason_category = "Value Engineering"
          /\ change_orders[k].amount < 0
    /\ \E k \in 1..Len(change_orders) : change_orders[k].amount > 0

\* the statuses the claim gives each tier of age
TierStatuses(age_days) ==
    IF age_days < 14 THEN {"Pending", "Under Review"}
    ELSE IF age_days < 45 THEN {"Under Review", "Approved", "Rejected"}
    ELSE {"Approved", "Rejected"}

\* C13: the status of every change order is one of its tier of age, the age
\* being now minus the day it was submitted: below 14 days Pending or Under
\* Review, below 45 Under Review, Approved or Rejected, from 45 on Approved or
\* Rejected; none of 14 days or more is Pending.
C13_StatusByAge ==
    InCos =>
        \A k \in 1..Len(change_orders) :
            /\ change_orders[k].status
                  \in TierStatuses(now - change_orders[k].date_submitted)
            /\ now - change_orders[k].date_submitted >= 14 =>
                  change_orders[k].status # "Pending"

\* the sorted change orders hold an approved one of 45 days or more and a
\* pending one of less than 14 days
C13_Witness ==
    /\ pc = "cos_done"
    /\ \E k \in 1..Len(change_orders) :
          /\ now - change_orders[k].date_submitted >= 45
          /\ change_orders[k].status = "Approved"
    /\ \E k \in 1..Len(change_orders) :
          /\ now - change_orders[k].date_submitted < 14
          /\ change_orders[k].status = "Pending"


\* generate_labor_logs has logged a working day, which LoggedDay numbers
LaborLogged == pc \in {"labor", "labor_done"} /\ day_count > 0
LoggedDay == day_count - 1

\* 100 * phase_pct of the latest logged day is below pct, with
\* phase_pct = day_count / (duration_months * 22)
LoggedBelow(pct) == 100 * LoggedDay < pct * (Duration * 22)

\* C14: every entry of a working day is assigned to a line active in the phase
\* of that day: {1,2} below 0.10, {1..5} below 0.30, {1,3..9} below 0.60,
\* {1,9..12} below 0.85, {1,11,13,14,15} from there on; and the day has entries.
C14_AssignedToActiveLine ==
    LaborLogged =>
        /\ day_logs # <<>>
        /\ \A w \in 1..Len(day_logs) :
              day_logs[w].cost_code \in
                 (IF LoggedBelow(10) THEN {1, 2}
                  ELSE IF LoggedBelow(30) THEN {1, 2, 3, 4, 5}
                  ELSE IF LoggedBelow(60) THEN {1, 3, 4, 5, 6, 7, 8, 9}
                  ELSE IF LoggedBelow(85) THEN {1, 9, 10, 11, 12}
                  ELSE {1, 11, 13, 14, 15})

\* a day of the last phase whose workers are on line 15
C14_Witness ==
    /\ LaborLogged
    /\ ~LoggedBelow(85)
    /\ \E w \in 1..Len(day_logs) : day_logs[w].cost_code = 15

\* the bounds the claim gives the crew size of the latest logged day
ClaimedCrew ==
    IF LoggedBelow(15) THEN <<2, 5>>
    ELSE IF LoggedBelow(75)
         THEN (IF PROJECTS[proj].complexity = "high" THEN <<8, 18>> ELSE <<5, 12>>)
    ELSE <<3, 7>>

\* C15: a working day has as many entries as the crew size drawn for it, which
\* is within the bounds of the day's phase, also above the 8 catalog roles.
C15_EntriesEqualCrew ==
    LaborLogged =>
        /\ Len(day_logs) = LevelOf(ClaimedCrew[1], ClaimedCrew[2], bias.crew)
        /\ Len(day_logs) >= ClaimedCrew[1]
        /\ Len(day_logs) <= ClaimedCrew[2]

\* a day of peak production with 18 entries
C15_Witness ==
    /\ LaborLogged
    /\ ~LoggedBelow(15)
    /\ LoggedBelow(75)
    /\ Len(day_logs) = 18

\* C16: every labor entry has hours_ot in {0, 2, 4} and hours_st in
\* {4, 6, 8, 10}, and standard hours of exactly 8 whenever it has overtime.
C16_HoursDomain ==
    LaborLogged =>
        \A w \in 1..Len(day_logs) :
            /\ day_logs[w].hours_ot \in {0, 2, 4}
            /\ day_logs[w].hours_st \in {4, 6, 8, 10}
            /\ day_logs[w].hours_ot > 0 => day_logs[w].hours_st = 8

\* the logs have been returned, the last day's entries with overtime
C16_Witness ==
    /\ pc = "labor_done"
    /\ \E w \in 1..Len(day_logs) : day_logs[w].hours_ot = 4

\* C20: when generate_labor_logs has returned, the hours logged against each
\* SOV line are within scheduled_value * labor_pct / 65.
C20_HoursWithinBudget ==
    pc = "labor_done" =>
        \A n \in 1..Len(sov_lines) : line_hours[n] <= LaborBudget(sov_lines[n])


\* generate_material_deliveries is running or has returned
InDeliveries == pc \in {"deliveries", "deliveries_done"}

\* the number of deliveries of SOV line number n
DeliveriesOf(n) == Cardinality({k \in 1..Len(deliveries) : deliveries[k].line_number = n})

\* C17: deliveries are produced only for SOV lines 3 to 12, between 3 and 8 for
\* each of those the loop has passed; lines 1, 2, 13, 14 and 15 receive none.
C17_DeliveriesPerLine ==
    InDeliveries =>
        /\ \A k \in 1..Len(deliveries) : deliveries[k].line_number \in 3..12
        /\ \A i \in 1..Len(sov_lines) :
              LET n == sov_lines[i].line_number
              IN  IF n \in 3..12 /\ i < deliv_i
                  THEN DeliveriesOf(n) >= 3 /\ DeliveriesOf(n) <= 8
                  ELSE DeliveriesOf(n) = 0

\* the sorted deliveries have been returned, 8 of them for one line, and every
\* line from 3 to 12 has some
C17_Witness ==
    /\ pc = "deliveries_done"
    /\ \E n \in 3..12 : DeliveriesOf(n) = 8
    /\ \A n \in 3..12 : DeliveriesOf(n) >= 3

\* the window the claim gives SOV line number n, for D = duration_months * 30
ClaimedWindow(n, D) ==
    IF n <= 4 THEN <<15, (4 * D) \div 10>>
    ELSE IF n <= 9 THEN <<(15 * D) \div 100, (7 * D) \div 10>>
    ELSE <<(4 * D) \div 10, (9 * D) \div 10>>

\* C18: the day offset of every delivery is inside the window of its SOV
\* line, [15, floor(0.4 D)] for lines 3-4, [floor(0.15 D), floor(0.7 D)] for
\* lines 5-9 and [floor(0.4 D), floor(0.9 D)] for lines 10-12, and the lower
\* and the upper ends of the windows do not decrease from band to band.
C18_DeliveryWindows ==
    InDeliveries =>
        LET D == Duration * 30
        IN  /\ \A k \in 1..Len(deliveries) :
                  /\ deliveries[k].day_offset
                        >= ClaimedWindow(deliveries[k].line_number, D)[1]
                  /\ deliveries[k].day_offset
                        <= ClaimedWindow(deliveries[k].line_number, D)[2]
            /\ \A i \in 1..2 :
                  /\ ClaimedWindow(<<4, 9, 12>>[i], D)[1]
                        <= ClaimedWindow(<<4, 9, 12>>[i + 1], D)[1]
                  /\ ClaimedWindow(<<4, 9, 12>>[i], D)[2]
                        <= ClaimedWindow(<<4, 9, 12>>[i + 1], D)[2]

\* the sorted deliveries hold one of lines 3-4 on the last day of its window
\* and every delivery of lines 10-12 comes on day floor(0.4 D) or later
C18_Witness ==
    /\ pc = "deliveries_done"
    /\ \E k \in 1..Len(deliveries) :
          /\ deliveries[k].line_number <= 4
          /\ deliveries[k].day_offset = (4 * Duration * 30) \div 10
    /\ \E k \in 1..Len(deliveries) : deliveries[k].line_number >= 10


\* the component of main()'s loop body a value of pc belongs to, in the order
\* of the claim: contract 1, SOV 2, labor 3, deliveries 4, change orders 5,
\* RFIs 6, field notes 7, billing 8, bid estimate 9; 10 after the loop
Component(p) ==
    CASE p = "contract" -> 1
      [] p \in {"sov_pcts", "sov_lines", "sov_adjust", "sov_done"} -> 2
      [] p \in {"labor", "labor_done"} -> 3
      [] p \in {"deliveries", "deliveries_done"} -> 4
      [] p \in {"cos", "cos_done"} -> 5
      [] p \in {"rfis", "rfis_done"} -> 6
      [] p \in {"notes", "notes_done"} -> 7
      [] p \in {"billing", "billing_done"} -> 8
      [] p = "bid_done" -> 9
      [] p = "saved" -> 10

\* the values of pc at which a component has returned
Returned ==
    {"sov_done", "labor_done", "deliveries_done", "cos_done", "rfis_done",
     "notes_done", "billing_done", "bid_done"}

\* C19: main() takes the projects one after another in list order and, within
\* a project, the components in the order contract, SOV, labor, deliveries,
\* change orders, RFIs, field notes, billing, bid estimate: a step stays in
\* its component, or goes from a component that has returned to the next one
\* of the same project, or from the bid estimate of project k to the contract
\* of project k + 1, or out of the loop after the bid estimate of the last.
C19_SequentialOrder ==
    [][\/ /\ Component(pc') = Component(pc)
          /\ proj' = proj
       \/ /\ Component(pc') = Component(pc) + 1
          /\ Component(pc') <= 9
          /\ pc = "contract" \/ pc \in Returned
          /\ proj' = proj
       \/ /\ pc = "bid_done"
          /\ pc' = "contract"
          /\ proj' = proj + 1
       \/ /\ pc = "bid_done"
          /\ pc' = "saved"
          /\ proj = Len(PROJECTS)
          /\ proj' = proj]_vars

\* the bid estimate of the second project is done, every component of the
\* project having run
C19_Witness ==
    /\ pc = "bid_done"
    /\ proj = 2
    /\ day_count = WorkDays(PROJECTS[2])
    /\ Len(rfis) = num_rfis
    /\ note_days = WorkDays(PROJECTS[2])
    /\ month = PROJECTS[2].duration_months
    /\ bid > 0


\* project_duration_days of the project being processed
DurationDays == Duration * 30

\* a range random.randint accepts
Drawable(range) == range[1] <= range[2]

\* C21: for every project of the catalog no generator reaches a failure: the
\* ranges of the day offsets of deliveries, change orders and RFIs have their
\* lower bound at or below their upper bound, the billing engine divides by
\* neither a zero duration_months nor a zero scheduled_value, and every SOV
\* line's scheduled_value, the last one's with the residue included, is
\* strictly positive.
C21_NoFailureState ==
    /\ (pc = "deliveries" /\ deliv_i <= Len(sov_lines)
           /\ sov_lines[deliv_i].line_number \in MaterialLines)
          => Drawable(OffsetWindow(sov_lines[deliv_i].line_number, DurationDays))
    /\ pc = "cos" => Drawable(CoOffsetRange(DurationDays))
    /\ pc = "rfis" => Drawable(RfiOffsetRange(DurationDays))
    /\ InBilling =>
          /\ Duration > 0
          /\ \A i \in 1..NumLines : sov_lines[i].scheduled_value > 0
    /\ SovReturned => \A i \in 1..NumLines : sov_lines[i].scheduled_value > 0

\* the billing of the shortest project has returned on an SOV whose last line
\* gave up a residue, with pct_complete computed for that line
C21_Witness ==
    /\ pc = "billing_done"
    /\ \A p \in 1..Len(PROJECTS) : Duration <= PROJECTS[p].duration_months
    /\ residue < 0
    /\ \E it \in AllItems : it.line_number = sov_lines[NumLines].line_number


\* the line items of application a of the applications apps
ItemsOf(apps, a) == {apps[a].line_items[k] : k \in 1..Len(apps[a].line_items)}

\* the applications before a that bill line n
BilledBefore(apps, a, n) ==
    {b \in 1..(a - 1) : \E it \in ItemsOf(apps, b) : it.line_number = n}

RECURSIVE PrecedingTotal(_, _, _)
\* total_billed of line n in its line item preceding application a, 0 if none:
\* the item of the nearest application before a that bills the line
PrecedingTotal(apps, a, n) ==
    IF a = 1 THEN 0
    ELSE IF \E it \in ItemsOf(apps, a - 1) : it.line_number = n
         THEN (CHOOSE it \in ItemsOf(apps, a - 1) : it.line_number = n).total_billed
         ELSE PrecedingTotal(apps, a - 1, n)

\* this_period summed over the line items of application a
ThisPeriodTotal(apps, a) ==
    SumSeq([k \in 1..Len(apps[a].line_items) |-> apps[a].line_items[k].this_period])

\* application a of apps and its line items are consistent with the
\* applications before it
Consistent(apps, a) ==
    /\ \A it \in ItemsOf(apps, a) :
          /\ it.this_period > 0
          /\ it.previous_billed + it.this_period = it.total_billed
          /\ it.balance_to_finish = it.scheduled_value - it.total_billed
          /\ it.balance_to_finish >= 0
          /\ it.previous_billed = PrecedingTotal(apps, a, it.line_number)
    /\ apps[a].period_total = ThisPeriodTotal(apps, a)
    /\ apps[a].cumulative_billed =
          (IF a = 1 THEN 0 ELSE apps[a - 1].cumulative_billed) + apps[a].period_total

\* C22: in every emitted record, a line item has this_period > 0,
\* previous_billed + this_period = total_billed and balance_to_finish =
\* scheduled_value - total_billed >= 0; its previous_billed is the total_billed
\* of the line's preceding line item (0 if none); the application's
\* period_total is the sum of this_period over its line items and its
\* cumulative_billed is the previous application's plus its period_total.
\* Stated of every step of the billing engine: it leaves the applications
\* emitted so far as they are and what it appends is consistent with them.
C22_BookkeepingConsistent ==
    [][(pc = "billing" /\ billing' # billing) =>
          /\ Len(billing') = Len(billing) + 1
          /\ SubSeq(billing', 1, Len(billing)) = billing
          /\ Consistent(billing', Len(billing'))]_vars

\* a line billed again after an application that left it out: its
\* previous_billed is carried over from further back
C22_Witness ==
    /\ pc = "billing_done"
    /\ \E a \in 3..Len(billing) : \E it \in ItemsOf(billing, a) :
          /\ it.previous_billed > 0
          /\ (a - 1) \notin BilledBefore(billing, a, it.line_number)


\* C23: the S-curve progress multiplier is non-decreasing in the month index
\* over 0..duration_months, for every duration of the catalog: no line's
\* target is lower in a month than in the month before, also across the 0.15
\* and 0.85 breakpoints.
C23_ProgressNonDecreasing ==
    (InBilling /\ month >= 1) =>
        /\ ProgressMult(month, Duration) >= ProgressMult(month - 1, Duration)
        /\ \A i \in 1..NumLines :
              TargetPct(sov_lines[i].line_number, month, Duration)
                  >= TargetPct(sov_lines[i].line_number, month - 1, Duration)


\* progress_mult of month m is at most pct percent
ProgressAtMost(m, pct) == 100 * ProgressMult(m, Duration) <= pct * ProgressDen(Duration)

\* the month of application a
MonthOf(a) == billing[a].application_number - 1

\* C24: billing of late lines lags: no line item of a closeout line (13-15) is
\* in an application of a month whose progress multiplier is at most 0.3, none
\* of a controls/insulation line (10-12) in one of a month whose multiplier is
\* at most 0.15; and every line's target percentage lies in [0, 1].
C24_LateLinesLag ==
    InBilling =>
        /\ \A a \in 1..Len(billing) :
           \A k \in 1..Len(billing[a].line_items) :
              /\ ProgressAtMost(MonthOf(a), 30) => billing[a].line_items[k].line_number <= 12
              /\ ProgressAtMost(MonthOf(a), 15) => billing[a].line_items[k].line_number <= 9
        /\ \A i \in 1..NumLines :
              /\ TargetPct(sov_lines[i].line_number, month, Duration) >= 0
              /\ TargetPct(sov_lines[i].line_number, month, Duration) <= TargetDen(Duration)

\* the billing has returned with an application of a month at 0.15 or less,
\* one of a month above 0.15 and at 0.3 or less that bills a line of 10-12, and
\* a later one that bills a closeout line
C24_Witness ==
    /\ pc = "billing_done"
    /\ \E a \in 1..Len(billing) : ProgressAtMost(MonthOf(a), 15)
    /\ \E a \in 1..Len(billing) :
          /\ ProgressAtMost(MonthOf(a), 30)
          /\ \E k \in 1..Len(billing[a].line_items) :
                billing[a].line_items[k].line_number \in 10..12
    /\ \E a \in 1..Len(billing) :
       \E k \in 1..Len(billing[a].line_items) :
          billing[a].line_items[k].line_number >= 13


\* the values of pc from the return of generate_sov to the end of the
\* project's pass of the loop of main()
SovFrozen ==
    Returned \cup {"labor", "deliveries", "cos", "rfis", "notes", "billing", "saved"}

\* C25: once generate_sov has returned, no later component (labor, deliveries,
\* change orders, RFIs, field notes, billing, bid estimate) changes a SOV
\* line's scheduled_value, labor_pct or material_pct, nor the contract's
\* original_contract_value: the billing engine changes its own accumulator
\* only, and the scheduled values still sum to the contract value after the
\* whole project is processed.
C25_SovImmutableAfterReturn ==
    [][(pc \in SovFrozen) =>
          /\ sov_lines' = sov_lines
          /\ contract_value' = contract_value
          /\ SumSeq(ScheduledValues(sov_lines')) = contract_value]_vars

\* the last project is processed: its billing has accumulated on every line,
\* the bid estimate is made, and the SOV still sums to the contract value
C25_Witness ==
    /\ pc = "bid_done"
    /\ proj = Len(PROJECTS)
    /\ \A i \in 1..NumLines : sov_billing[i] > 0
    /\ Len(day_logs) > 0 /\ Len(deliveries) > 0 /\ Len(billing) > 0
    /\ SumSeq(ScheduledValues(sov_lines)) = contract_value


\* a pass of the day loop: on a Saturday or Sunday it logs nothing and leaves
\* the working-day counter; on any other day it counts one working day and
\* logs entries of that date, later than the date logged before
LoopPass ==
    (pc = "labor" /\ pc' = "labor") =>
        /\ current_date' = current_date + 1
        /\ IF WeekdayOf(current_date) >= 5
           THEN day_count' = day_count /\ day_logs' = day_logs
           ELSE /\ day_count' = day_count + 1
                /\ day_logs' # <<>>
                /\ \A w \in 1..Len(day_logs') :
                      /\ day_logs'[w].date = current_date
                      /\ WeekdayOf(day_logs'[w].date) < 5
                      /\ \A v \in 1..Len(day_logs) :
                            day_logs[v].date < day_logs'[w].date

\* C26: the day loop of generate_labor_logs terminates, for every start date
\* and duration, after logging exactly duration_months * 22 distinct working
\* days in increasing date order; weekend days are skipped without advancing
\* the working-day counter, and no labor entry is dated on a Saturday or Sunday.
C26_DayLoopTerminates ==
    /\ [][LoopPass]_vars
    /\ [](pc = "labor_done" => day_count = Duration * 22)
    /\ (pc = "labor") ~> (pc = "labor_done")

\* the loop has returned with all its working days logged, weekends skipped
\* on the way: more days have gone by than were logged
C26_Witness ==
    /\ pc = "labor_done"
    /\ day_count = Duration * 22
    /\ current_date > 90 + day_count
    /\ day_logs # <<>>


\* C27: for every SOV line produced by generate_sov, labor_pct + material_pct
\* is at most 1 (1000 per mille), so that the line's labor budget and material
\* budget together never exceed its scheduled_value.
C27_LaborPlusMaterialWithinOne ==
    SovReturned =>
        \A i \in 1..NumLines : sov_lines[i].labor_pct + sov_lines[i].material_pct <= 1000

====
